---- MODULE Spec2Model ----
(***************************************************************************)
(* Model of Campusil_next.py_Solution.py: the checksum validator           *)
(* check_id_valid, the resumable IDIterator and the lazy id_generator.     *)
(*                                                                         *)
(* Python values are modelled as follows.                                  *)
(*   - an int is a TLA+ integer; every input drawn here is an int, so      *)
(*     isinstance(id_number, int) is TRUE;                                 *)
(*   - a str is a sequence of one-character strings;                       *)
(*   - a call that raises is an outcome record whose kind names the        *)
(*     exception ("ValueError", "StopIteration").                          *)
(***************************************************************************)
EXTENDS Integers, Sequences, FiniteSets, TLC

VARIABLES inst, chk, run

vars == <<inst, chk, run>>

(***************************************************************************)
(* Program constants and bounds of the model.                              *)
(***************************************************************************)
\* the digit count tested by len(id_str) != 9
IDLen == 9

\* the upper limit of id_generator's loop
MaxID == 999999999

\* the smallest integer whose decimal representation has IDLen digits
MinID == 10 ^ (IDLen - 1)

\* width of the windows of inputs drawn around the interesting values
Window == 20

\* number of advance calls made on one traversal instance
MaxCalls == 3

\* the traversal instances that may exist at the same time
Handles == {"h1", "h2"}

(***************************************************************************)
(* str(), str.isnumeric(), int() on one character, len().                  *)
(***************************************************************************)
DigitChars == <<"0", "1", "2", "3", "4", "5", "6", "7", "8", "9">>

RECURSIVE NatStr(_)
NatStr(n) ==
    IF n < 10 THEN <<DigitChars[n + 1]>>
    ELSE Append(NatStr(n \div 10), DigitChars[(n % 10) + 1])

str(n) == IF n < 0 THEN <<"-">> \o NatStr(0 - n) ELSE NatStr(n)

isnumeric(s) ==
    /\ Len(s) > 0
    /\ \A i \in 1..Len(s) : \E d \in 1..10 : DigitChars[d] = s[i]

int(ch) == CHOOSE d \in 0..9 : DigitChars[d + 1] = ch

RECURSIVE sum(_)
sum(list) == IF list = <<>> THEN 0 ELSE Head(list) + sum(Tail(list))

(***************************************************************************)
(* check_id_valid                                                          *)
(***************************************************************************)
\* mutant: the length test is dropped from the guard
InvalidIdStr_NoLen(id_str) == ~isnumeric(id_str)

\* the condition under which check_id_valid raises ValueError
InvalidIdStr(id_str) == Len(id_str) # IDLen \/ ~isnumeric(id_str)

multiplied_list(id_str) ==
    [index \in 1..Len(id_str) |->
        IF index % 2 = 0 THEN int(id_str[index]) * 2 ELSE int(id_str[index])]

\* mutant: only numbers greater than 10 have their digits summed
DigitSum_Gt10(num) == IF num <= 10 THEN num ELSE (num \div 10) + (num % 10)

\* one element of the list summed on line 38
DigitSum(num) == IF num < 10 THEN num ELSE (num \div 10) + (num % 10)

summed_list(id_str) ==
    LET m == multiplied_list(id_str)
    IN  sum([k \in 1..Len(m) |-> DigitSum(m[k])])

\* raised: the call raised ValueError; value: the boolean returned otherwise
check_id_valid(id_number) ==
    LET id_str == str(id_number)
    IN  IF InvalidIdStr(id_str)
        THEN [raised |-> TRUE, value |-> FALSE]
        ELSE [raised |-> FALSE, value |-> (summed_list(id_str) % 10 = 0)]

(***************************************************************************)
(* Outcome of one advance call: next(iterator) or next(generator).         *)
(*   kind    "id", "StopIteration" or "ValueError"                         *)
(*   id      the id returned or yielded (0 when kind is not "id")          *)
(*   cursor  self.id_ (IDIterator) or id_number (id_generator) afterwards  *)
(*   gstate  the generator's frame afterwards                              *)
(*   tested  the candidates passed to check_id_valid, in order             *)
(***************************************************************************)
Raise(exc, cursor, gstate, tested) ==
    [kind |-> exc, id |-> 0, cursor |-> cursor, gstate |-> gstate,
     tested |-> tested]

(***************************************************************************)
(* IDIterator                                                              *)
(***************************************************************************)
\* mutant: the cursor is not moved past the returned id
ItReturn_NoIncrement(id_, tested) ==
    [kind |-> "id", id |-> id_, cursor |-> id_, gstate |-> "object",
     tested |-> tested]

\* mutant: the id is read after the increment
ItReturn_AfterIncrement(id_, tested) ==
    [kind |-> "id", id |-> id_ + 1, cursor |-> id_ + 1, gstate |-> "object",
     tested |-> tested]

\* mutant: the cursor jumps to the next ten after a returned id
ItReturn_Jump(id_, tested) ==
    [kind |-> "id", id |-> id_, cursor |-> id_ + 10, gstate |-> "object",
     tested |-> tested]

\* lines 112-114: current_id = self.id_; self.id_ += 1; return current_id
ItReturn(id_, tested) ==
    [kind |-> "id", id |-> id_, cursor |-> id_ + 1, gstate |-> "object",
     tested |-> tested]

\* mutant: the scan steps over a candidate
ItSkip_Two(id_) == id_ + 2

\* line 116: self.id_ += 1
ItSkip(id_) == id_ + 1

\* IDIterator.__next__: the while True loop, from self.id_ = id_
RECURSIVE IDIterator_next(_, _)
IDIterator_next(id_, tested) ==
    LET v == check_id_valid(id_)
        t == Append(tested, id_)
    IN  IF v.raised THEN Raise("ValueError", id_, "object", t)
        ELSE IF v.value THEN ItReturn(id_, t)
        ELSE IDIterator_next(ItSkip(id_), t)

(***************************************************************************)
(* id_generator.  The body of a generator function runs on the first pull: *)
(* "created" is the frame before it, "suspended" the frame stopped at the  *)
(* yield, "finished" the frame after a return or an exception.             *)
(***************************************************************************)
\* the condition of line 148 (isinstance(id_number, int) holds of every input)
InvalidStart(id_number) == Len(str(id_number)) # IDLen

\* line 153: yield id_number
GenYield(id_number, tested) ==
    [kind |-> "id", id |-> id_number, cursor |-> id_number,
     gstate |-> "suspended", tested |-> tested]

\* lines 151-154: while id_number <= 999999999
RECURSIVE GenLoop(_, _)
GenLoop(id_number, tested) ==
    IF id_number <= MaxID
    THEN LET v == check_id_valid(id_number)
             t == Append(tested, id_number)
         IN  IF v.raised THEN Raise("ValueError", id_number, "finished", t)
             ELSE IF v.value THEN GenYield(id_number, t)
             ELSE GenLoop(id_number + 1, t)
    ELSE Raise("StopIteration", id_number, "finished", tested)

\* mutant: a finished frame is resumed like a suspended one
id_generator_next_Resume(gstate, id_number) ==
    IF gstate = "created"
    THEN IF InvalidStart(id_number)
         THEN Raise("ValueError", id_number, "finished", <<>>)
         ELSE GenLoop(id_number, <<>>)
    ELSE GenLoop(id_number + 1, <<>>)

\* next(generator) on a frame in state gstate whose local is id_number
id_generator_next(gstate, id_number) ==
    IF gstate = "created"
    THEN IF InvalidStart(id_number)
         THEN Raise("ValueError", id_number, "finished", <<>>)
         ELSE GenLoop(id_number, <<>>)
    ELSE IF gstate = "suspended"
    THEN GenLoop(id_number + 1, <<>>)
    ELSE Raise("StopIteration", id_number, "finished", <<>>)

(***************************************************************************)
(* Inputs                                                                  *)
(***************************************************************************)
\* starts given to IDIterator(...) and id_generator(...)
\* (the lowest ids, the ids around the last but one valid id 999999980, the
\* ids around the last valid id 999999998, and malformed starts)
Starts ==
    (MinID .. MinID + (Window \div 4))
    \cup (MaxID - Window .. MaxID - Window + 2) \cup (MaxID - 2 .. MaxID)
    \cup {0, MinID - 1, MaxID + 1, 0 - 1, 0 - 12345678}

\* arguments given to check_id_valid
CheckInputs ==
    (0 .. Window) \cup (MinID - Window .. MinID + Window)
    \cup (MaxID - Window .. MaxID + Window)
    \cup (0 - Window .. 0 - 1)
    \cup (0 - MinID - Window .. 0 - MinID + Window)
    \cup (0 - (MinID \div 10) - Window .. 0 - (MinID \div 10) + Window)
    \cup (150000000 .. 150000000 + Window)
    \cup (959595950 .. 959595950 + Window)
    \cup (565656560 .. 565656560 + Window)

(***************************************************************************)
(* State                                                                   *)
(*   inst[h]  a traversal instance: kind "none" (not constructed), "it"    *)
(*            (an IDIterator) or "gen" (a generator object); start, the    *)
(*            constructor argument; cursor, self.id_ or id_number; gstate, *)
(*            the generator frame; outcomes, the outcomes of the advance   *)
(*            calls made so far                                            *)
(*   chk      the last call of check_id_valid: its argument and result     *)
(*   run      the last run of main: the text typed at the two prompts, the *)
(*            ids printed, the error message printed ("" when none) and    *)
(*            the exception that left main ("none" when it returned)       *)
(***************************************************************************)
NoInstance ==
    [kind |-> "none", start |-> 0, cursor |-> 0, gstate |-> "none",
     outcomes |-> <<>>]

NoCall == [called |-> FALSE, arg |-> 0, raised |-> FALSE, value |-> FALSE]

NoRun ==
    [called |-> FALSE, new_id |-> <<>>, choice |-> "", printed |-> <<>>,
     error |-> "", escaped |-> "none"]

Init ==
    /\ inst = [h \in Handles |-> NoInstance]
    /\ chk = NoCall
    /\ run = NoRun

\* IDIterator(id_): __init__ stores id_ and checks nothing
NewIDIterator(h, id_) ==
    /\ inst[h].kind = "none"
    /\ inst' = [inst EXCEPT ![h] =
                  [kind |-> "it", start |-> id_, cursor |-> id_,
                   gstate |-> "object", outcomes |-> <<>>]]
    /\ UNCHANGED <<chk, run>>

\* id_generator(id_number): the call only creates the generator object
NewIdGenerator(h, id_number) ==
    /\ inst[h].kind = "none"
    /\ inst' = [inst EXCEPT ![h] =
                  [kind |-> "gen", start |-> id_number, cursor |-> id_number,
                   gstate |-> "created", outcomes |-> <<>>]]
    /\ UNCHANGED <<chk, run>>

\* the instance after an advance call with outcome o
Advanced(i, o) ==
    [i EXCEPT !.cursor = o.cursor, !.gstate = o.gstate,
              !.outcomes = Append(@, o)]

\* mutant: the cursor is an attribute of the class, shared by all iterators
NextIt_Shared(h) ==
    /\ inst[h].kind = "it"
    /\ Len(inst[h].outcomes) < MaxCalls
    /\ LET o == IDIterator_next(inst[h].cursor, <<>>)
       IN  inst' = [g \in Handles |->
                      IF g = h THEN Advanced(inst[h], o)
                      ELSE IF inst[g].kind = "it"
                      THEN [inst[g] EXCEPT !.cursor = o.cursor]
                      ELSE inst[g]]
    /\ UNCHANGED <<chk, run>>

\* next(iterator)
NextIt(h) ==
    /\ inst[h].kind = "it"
    /\ Len(inst[h].outcomes) < MaxCalls
    /\ inst' = [inst EXCEPT ![h] =
                  Advanced(@, IDIterator_next(inst[h].cursor, <<>>))]
    /\ UNCHANGED <<chk, run>>

\* next(generator)
NextGen(h) ==
    /\ inst[h].kind = "gen"
    /\ Len(inst[h].outcomes) < MaxCalls
    /\ inst' = [inst EXCEPT ![h] =
                  Advanced(@, id_generator_next(inst[h].gstate, inst[h].cursor))]
    /\ UNCHANGED <<chk, run>>

Next ==
    \/ \E h \in Handles, s \in Starts : NewIDIterator(h, s)
    \/ \E h \in Handles, s \in Starts : NewIdGenerator(h, s)
    \/ \E h \in Handles : NextIt(h)
    \/ \E h \in Handles : NextGen(h)

Spec == Init /\ [][Next]_vars

\* a call check_id_valid(n)
Check(n) ==
    /\ chk' = [called |-> TRUE, arg |-> n,
               raised |-> check_id_valid(n).raised,
               value |-> check_id_valid(n).value]
    /\ UNCHANGED <<inst, run>>

NextValidator == \E n \in CheckInputs : Check(n)

SpecValidator == Init /\ [][NextValidator]_vars

(***************************************************************************)
(* main                                                                    *)
(***************************************************************************)
\* range(10)
NumIds == 10

\* the lower limit of line 175
MinStart == 100000000

MsgEnterId ==
    "Invalid ID number. Please enter a 9-digit number greater than or equal to 100000000."

MsgCheckId == "Invalid ID number. Please provide a 9-digit integer."

MsgStartId == "Invalid starting ID number. Please provide a 9-digit integer."

MsgChoice == "Invalid choice. Please enter 'it' or 'gen'."

\* int() on a numeric string
RECURSIVE IntOf(_)
IntOf(s) ==
    IF s = <<>> THEN 0
    ELSE 10 * IntOf(SubSeq(s, 1, Len(s) - 1)) + int(s[Len(s)])

\* lines 198-199: main prints the ids collected and returns
Printed(new_ids) == [printed |-> new_ids, error |-> "", escaped |-> "none"]

\* lines 201-202: a ValueError is caught and its message printed
Caught(msg) == [printed |-> <<>>, error |-> msg, escaped |-> "none"]

\* an exception no handler of main catches
Escaped(exc) == [printed |-> <<>>, error |-> "", escaped |-> exc]

\* lines 184-189: for _ in range(10), with n iterations left
RECURSIVE MainItLoop(_, _, _)
MainItLoop(id_, new_ids, n) ==
    IF n = 0 THEN Printed(new_ids)
    ELSE LET o == IDIterator_next(id_, <<>>)
         IN  IF o.kind = "id"
             THEN MainItLoop(o.cursor, Append(new_ids, o.id), n - 1)
             ELSE IF o.kind = "StopIteration" THEN Printed(new_ids)
             ELSE Caught(MsgCheckId)

\* line 193: [next(generator) for _ in range(10)], with n iterations left
RECURSIVE MainGenLoop(_, _, _, _)
MainGenLoop(gstate, id_number, new_ids, n) ==
    IF n = 0 THEN Printed(new_ids)
    ELSE LET o == id_generator_next(gstate, id_number)
         IN  IF o.kind = "id"
             THEN MainGenLoop(o.gstate, o.cursor, Append(new_ids, o.id), n - 1)
             ELSE IF o.kind = "StopIteration" THEN Escaped("StopIteration")
             ELSE Caught(IF o.tested = <<>> THEN MsgStartId ELSE MsgCheckId)

\* main() with new_id and choice typed at the prompts
main(new_id, choice) ==
    IF Len(new_id) # 9 \/ ~isnumeric(new_id) \/ IntOf(new_id) < MinStart
    THEN Caught(MsgEnterId)
    ELSE IF choice = "it" THEN MainItLoop(IntOf(new_id), <<>>, NumIds)
    ELSE IF choice = "gen"
    THEN MainGenLoop("created", IntOf(new_id), <<>>, NumIds)
    ELSE Caught(MsgChoice)

\* the ids typed at the first prompt
MainStarts ==
    (MinID .. MinID + (Window \div 4)) \cup (MaxID - 5 * Window .. MaxID)
    \cup {12345, MaxID + 1, 0 - 12345678}

\* the text typed at the first prompt
MainInputs ==
    {str(n) : n \in MainStarts}
    \cup {<<"0", "0", "0", "0", "0", "0", "0", "0", "1">>}

\* the text typed at the second prompt
Choices == {"it", "gen", "other"}

\* the run of main made by lines 207-208, once per process
Main(new_id, choice) ==
    /\ ~run.called
    /\ LET r == main(new_id, choice)
       IN  run' = [called |-> TRUE, new_id |-> new_id, choice |-> choice,
                   printed |-> r.printed, error |-> r.error,
                   escaped |-> r.escaped]
    /\ UNCHANGED <<inst, chk>>

\* lines 203-204: the user interrupts a prompt
MainInterrupted ==
    /\ ~run.called
    /\ run' = [called |-> TRUE, new_id |-> <<>>, choice |-> "",
               printed |-> <<>>, error |-> "", escaped |-> "RuntimeError"]
    /\ UNCHANGED <<inst, chk>>

NextMain ==
    \/ \E new_id \in MainInputs, choice \in Choices : Main(new_id, choice)
    \/ MainInterrupted

SpecMain == Init /\ [][NextMain]_vars

TypeOK ==
    /\ \A h \in Handles :
         /\ inst[h].kind \in {"none", "it", "gen"}
         /\ inst[h].gstate \in {"none", "object", "created", "suspended", "finished"}
         /\ Len(inst[h].outcomes) <= MaxCalls
    /\ chk.raised \in BOOLEAN

(***************************************************************************)
(* Properties                                                              *)
(***************************************************************************)
InRange(n) == n >= MinID /\ n <= MaxID

Calls(h) == 1..Len(inst[h].outcomes)

\* check_id_valid(n) == True
IsValid(n) == check_id_valid(n) = [raised |-> FALSE, value |-> TRUE]

\* C1: with a start in [100000000, 999999999], every id returned by
\* IDIterator.__next__ and every id yielded by id_generator, after any number
\* of advance calls, satisfies check_id_valid(id) == True.
C1_EmittedIdsValid ==
    \A h \in Handles :
        InRange(inst[h].start) =>
            \A k \in Calls(h) :
                inst[h].outcomes[k].kind = "id" => IsValid(inst[h].outcomes[k].id)

\* an iterator and a generator have each emitted two ids
C1_Witness ==
    \E h \in Handles, g \in Handles :
        /\ inst[h].kind = "it" /\ inst[g].kind = "gen"
        /\ InRange(inst[h].start) /\ InRange(inst[g].start)
        /\ Len(inst[h].outcomes) >= 2 /\ inst[h].outcomes[2].kind = "id"
        /\ Len(inst[g].outcomes) >= 2 /\ inst[g].outcomes[2].kind = "id"

\* C2: with a start in [100000000, 999999999], the first outcome of a fresh
\* IDIterator or id_generator is the smallest valid id >= start (start
\* included) whenever a valid id >= start exists: an id that is emitted first
\* is valid, is >= start and has no valid id in [start, id), and the first
\* call emits no id only when no id in [start, 999999999] is valid.
C2_FirstIsSmallestValid ==
    \A h \in Handles :
        (InRange(inst[h].start) /\ Len(inst[h].outcomes) >= 1) =>
            LET o == inst[h].outcomes[1]
            IN  /\ o.kind = "id" =>
                     /\ o.id >= inst[h].start
                     /\ IsValid(o.id)
                     /\ \A n \in inst[h].start .. o.id - 1 : ~IsValid(n)
                /\ o.kind # "id" =>
                     \A n \in inst[h].start .. MaxID : ~IsValid(n)

\* a first call that scanned past invalid candidates, and one whose start is
\* itself valid
C2_Witness ==
    \E h \in Handles, g \in Handles :
        /\ inst[h].kind = "it" /\ inst[g].kind = "gen"
        /\ InRange(inst[h].start) /\ InRange(inst[g].start)
        /\ Len(inst[h].outcomes) >= 1 /\ Len(inst[g].outcomes) >= 1
        /\ inst[h].outcomes[1].kind = "id"
        /\ inst[h].outcomes[1].id > inst[h].start
        /\ inst[g].outcomes[1].kind = "id"
        /\ inst[g].outcomes[1].id = inst[g].start

\* C3: an IDIterator and an id_generator built with the same start give the
\* same outcome at every position: the same id, or the same end-of-sequence
\* signal.  Stated for the starts in [100000000, 999999999].
C3_Interchangeable ==
    \A h \in Handles, g \in Handles :
        (inst[h].kind = "it" /\ inst[g].kind = "gen"
         /\ inst[h].start = inst[g].start /\ InRange(inst[h].start)) =>
            \A k \in Calls(h) \cap Calls(g) :
                /\ inst[h].outcomes[k].kind = inst[g].outcomes[k].kind
                /\ inst[h].outcomes[k].id = inst[g].outcomes[k].id

\* C4: with a start in [100000000, 999999999], an advance call that leaves
\* the cursor above 999999999 ends with StopIteration, never with ValueError.
C4_ExhaustionIsStopIteration ==
    \A h \in Handles :
        InRange(inst[h].start) =>
            \A k \in Calls(h) :
                inst[h].outcomes[k].cursor > MaxID =>
                    inst[h].outcomes[k].kind = "StopIteration"

\* C5: no IDIterator and no generator exists whose start is outside
\* [100000000, 999999999]: its construction failed with ValueError.
C5_RejectedAtConstruction ==
    \A h \in Handles : inst[h].kind # "none" => InRange(inst[h].start)

\* C8: every advance call tests finitely many candidates, none above
\* 999999999, and then returns an id or signals the end of the sequence.
C8_AdvanceBounded ==
    \A h \in Handles :
        InRange(inst[h].start) =>
            \A k \in Calls(h) :
                LET o == inst[h].outcomes[k]
                IN  /\ o.kind \in {"id", "StopIteration"}
                    /\ \A j \in 1..Len(o.tested) : o.tested[j] <= MaxID

\* C9: the ids emitted by one traversal instance are strictly increasing.
C9_StrictlyIncreasing ==
    \A h \in Handles :
        \A j \in Calls(h), k \in Calls(h) :
            (j < k /\ inst[h].outcomes[j].kind = "id"
                   /\ inst[h].outcomes[k].kind = "id") =>
                inst[h].outcomes[j].id < inst[h].outcomes[k].id

\* an instance has emitted three ids
C9_Witness ==
    \E h \in Handles :
        /\ Len(inst[h].outcomes) >= 3
        /\ \A k \in 1..3 : inst[h].outcomes[k].kind = "id"

\* C10: a call of IDIterator.__next__ that returns an id leaves self.id_ at
\* id + 1, every call starts its scan at the stored cursor, and no call,
\* whatever its outcome, decreases self.id_.
C10_CursorAfterReturn ==
    [][\A h \in Handles :
          (inst[h].kind = "it" /\ inst'[h].kind = "it"
           /\ Len(inst'[h].outcomes) = Len(inst[h].outcomes) + 1) =>
              LET o == inst'[h].outcomes[Len(inst'[h].outcomes)]
              IN  /\ inst'[h].cursor >= inst[h].cursor
                  /\ o.tested[1] = inst[h].cursor
                  /\ o.kind = "id" => inst'[h].cursor = o.id + 1]_vars

\* an iterator returned an id and its next call ended in an error
C10_Witness ==
    \E h \in Handles :
        /\ inst[h].kind = "it"
        /\ Len(inst[h].outcomes) >= 2
        /\ inst[h].outcomes[1].kind = "id"
        /\ inst[h].outcomes[2].kind = "ValueError"

(***************************************************************************)
(* The reference checksum, computed on the number and not on its string.   *)
(***************************************************************************)
\* the digit at 1-based position i, read left to right
RefDigit(n, i) == (n \div (10 ^ (IDLen - i))) % 10

RefValue(n, i) ==
    LET v == IF i % 2 = 0 THEN 2 * RefDigit(n, i) ELSE RefDigit(n, i)
    IN  IF v >= 10 THEN v - 9 ELSE v

RECURSIVE RefSum(_, _)
RefSum(n, i) == IF i = 0 THEN 0 ELSE RefValue(n, i) + RefSum(n, i - 1)

RefValid(n) == RefSum(n, IDLen) % 10 = 0

\* C6: check_id_valid raises ValueError for every integer whose decimal
\* representation is not exactly 9 digits (below 100000000, negative, or at
\* least 1000000000) and returns a boolean for every n in
\* [100000000, 999999999].
C6_RaisesOutsideDomain ==
    chk.called =>
        /\ chk.raised <=> ~InRange(chk.arg)
        /\ ~chk.raised => chk.value \in BOOLEAN

\* check_id_valid(0), the leading-zero id 000000000, raised
C6_Witness == chk.called /\ chk.arg = 0 /\ chk.raised

ScanFrom(h, k) ==
    IF k = 1 THEN inst[h].start ELSE inst[h].outcomes[k - 1].id + 1

\* C11: with a start in [100000000, 999999999] no valid id is skipped: an
\* emitted id is valid, is at most 999999999 and has no valid id between the
\* previous emitted id (or the start) and itself, and the first call that
\* emits no id comes only when no valid id is left up to 999999999.
C11_NoValidIdSkipped ==
    \A h \in Handles :
        InRange(inst[h].start) =>
            \A k \in Calls(h) :
                (k = 1 \/ inst[h].outcomes[k - 1].kind = "id") =>
                    LET o == inst[h].outcomes[k]
                    IN  /\ o.kind = "id" =>
                             /\ o.id >= ScanFrom(h, k) /\ o.id <= MaxID
                             /\ IsValid(o.id)
                             /\ \A n \in ScanFrom(h, k) .. o.id - 1 : ~IsValid(n)
                        /\ o.kind # "id" =>
                             \A n \in ScanFrom(h, k) .. MaxID : ~IsValid(n)

\* an iterator and a generator each emitted two ids and then stopped
C11_Witness ==
    \E h \in Handles, g \in Handles :
        /\ inst[h].kind = "it" /\ inst[g].kind = "gen"
        /\ InRange(inst[h].start) /\ InRange(inst[g].start)
        /\ Len(inst[h].outcomes) = 3 /\ Len(inst[g].outcomes) = 3
        /\ \A k \in 1..2 : inst[h].outcomes[k].kind = "id"
                           /\ inst[g].outcomes[k].kind = "id"
        /\ inst[h].outcomes[3].kind # "id" /\ inst[g].outcomes[3].kind # "id"

\* C12: exhausted is absorbing: on an instance started in
\* [100000000, 999999999], once an advance call ended without an id because
\* the cursor passed 999999999, every later call on the instance ends
\* without an id, with the same kind of signal and the same cursor; no id
\* above 999999999 is ever emitted.
C12_ExhaustedAbsorbing ==
    \A h \in Handles :
        \A k \in Calls(h) :
            LET o == inst[h].outcomes[k]
            IN  /\ o.kind = "id" => o.id <= MaxID
                /\ (InRange(inst[h].start) /\ o.kind # "id"
                    /\ o.cursor > MaxID) =>
                       \A j \in Calls(h) :
                           j > k =>
                               /\ inst[h].outcomes[j].kind = o.kind
                               /\ inst[h].outcomes[j].cursor = o.cursor
                               /\ inst[h].cursor = o.cursor

\* an iterator and a generator, both started in range, were each advanced
\* twice more after the call that exhausted them
C12_Witness ==
    \E h \in Handles, g \in Handles :
        /\ inst[h].kind = "it" /\ inst[g].kind = "gen"
        /\ InRange(inst[h].start) /\ InRange(inst[g].start)
        /\ Len(inst[h].outcomes) = 3 /\ Len(inst[g].outcomes) = 3
        /\ inst[h].outcomes[1].kind # "id" /\ inst[h].outcomes[1].cursor > MaxID
        /\ inst[g].outcomes[1].kind # "id" /\ inst[g].outcomes[1].cursor > MaxID

\* one advance call on an instance of the given kind, run on its own
AloneStep(kind, gstate, cursor) ==
    IF kind = "it" THEN IDIterator_next(cursor, <<>>)
    ELSE id_generator_next(gstate, cursor)

\* the outcomes of n advance calls on an instance that runs alone
RECURSIVE Alone(_, _, _, _)
Alone(kind, gstate, cursor, n) ==
    IF n = 0 THEN <<>>
    ELSE LET o == AloneStep(kind, gstate, cursor)
         IN  <<o>> \o Alone(kind, o.gstate, o.cursor, n - 1)

\* the outcomes a fresh instance of this kind and start gives in n calls
AloneFromStart(kind, start, n) ==
    Alone(kind, IF kind = "it" THEN "object" ELSE "created", start, n)

\* C13: traversal instances share no state: a step that advances or
\* constructs one instance leaves every other instance, its cursor
\* included, unchanged, and under any interleaving each instance has emitted
\* the outcomes it gives when it runs alone from its start.
C13_NoSharedState ==
    [][\A h \in Handles :
          inst'[h] # inst[h] =>
              /\ \A g \in Handles \ {h} : inst'[g] = inst[g]
              /\ inst'[h].kind # "none"
              /\ inst'[h].outcomes =
                     AloneFromStart(inst'[h].kind, inst'[h].start,
                                    Len(inst'[h].outcomes))]_vars

\* two iterators with the same start and a different number of calls made
C13_Witness ==
    \E h \in Handles, g \in Handles :
        /\ inst[h].kind = "it" /\ inst[g].kind = "it"
        /\ inst[h].start = inst[g].start /\ InRange(inst[h].start)
        /\ Len(inst[h].outcomes) = 3 /\ Len(inst[g].outcomes) = 1
        /\ inst[h].outcomes[3].kind = "id"
        /\ inst[h].cursor > inst[g].cursor

\* the first k valid ids at or after n, up to 999999999, by the reference
\* checksum
RECURSIVE FirstValid(_, _)
FirstValid(n, k) ==
    IF k = 0 \/ n > MaxID THEN <<>>
    ELSE IF RefValid(n) THEN <<n>> \o FirstValid(n + 1, k - 1)
    ELSE FirstValid(n + 1, k)

\* the input passes the test of line 175
Accepted(new_id) ==
    Len(new_id) = IDLen /\ isnumeric(new_id) /\ IntOf(new_id) >= MinStart

\* C14: for every accepted 9-digit input and each choice 'it' or 'gen', main
\* prints the next valid ids at or after the start in increasing order, 10 of
\* them or all that remain up to 999999999, prints no error message instead
\* and returns without an exception.
C14_MainPrintsNextIds ==
    (run.called /\ Accepted(run.new_id) /\ run.choice \in {"it", "gen"}) =>
        /\ run.escaped = "none"
        /\ run.error = ""
        /\ run.printed = FirstValid(IntOf(run.new_id), NumIds)

\* where 10 valid ids remain at or after the start, main prints those 10
MainPrintsTenWhenTenRemain ==
    (run.called /\ Accepted(run.new_id) /\ run.choice \in {"it", "gen"}
     /\ Len(FirstValid(IntOf(run.new_id), NumIds)) = NumIds) =>
        /\ run.escaped = "none"
        /\ run.error = ""
        /\ run.printed = FirstValid(IntOf(run.new_id), NumIds)

====
